---- MODULE Spec2Model ----
(***************************************************************************)
(* Model of the task executor of go-agent (pkg/execution/executor.go):     *)
(* the dependency resolver analyzeTaskDependencies, CanParallelize, and    *)
(* the scheduler ExecuteTask / ExecuteBatch / executeParallel.             *)
(***************************************************************************)
EXTENDS Integers, Sequences, FiniteSets, TLC

\* ------------------------------------------------------------------------
\* Bounds of the model
\* ------------------------------------------------------------------------
\* longest task list handed to ExecuteBatch
MaxTasks == 3
\* largest custom "max_workers" value tried besides the default
MaxWorkerLimit == 2
\* largest number of tasks of type agent_gen in a list handed to ExecuteBatch
MaxAgentGen == 1

\* ------------------------------------------------------------------------
\* Program constants
\* ------------------------------------------------------------------------
\* NewTaskExecutor: maxWorkers := 5 when the config carries no "max_workers"
DefaultMaxWorkers == 5

TaskStateWait == "wait"
TaskStateRunning == "running"
TaskStateSuccess == "success"
TaskStateFail == "fail"

SubTaskTypeTask == "task"
SubTaskTypeFunction == "function"
SubTaskTypeAgentCall == "agent_call"
SubTaskTypeAgentGen == "agent_gen"

\* the task types the input lists are drawn from: the scheduler tells agent_gen
\* from the other types (CanParallelize); function and agent_call tasks differ from
\* task only in the errors their handlers return (HandlerErrors)
TaskTypes == {SubTaskTypeTask, SubTaskTypeAgentGen}

\* id of the i-th task of an input list
IdOf(i) == "t" \o ToString(i)
\* a predecessor id that names no task of the list
DanglingID == "x"

\* models.SubTask, restricted to the fields the executor reads or writes
SubTask(id, dep, type) ==
    [ID |-> id, Dependent |-> dep, Type |-> type,
     State |-> TaskStateWait, StateMsg |-> ""]

\* the predecessor ids an input list of n tasks may use
DependentChoices(n) == {""} \cup {IdOf(i) : i \in 1..n} \cup {DanglingID}

\* an input list of ExecuteBatch: n tasks with distinct ids, in state wait,
\* with predecessors d and types t
InputList(n, d, t) == [i \in 1..n |-> SubTask(IdOf(i), d[i], t[i])]

\* the executor configurations: NewTaskExecutor(config)
WorkerLimits == (1..MaxWorkerLimit) \cup {DefaultMaxWorkers}

\* ------------------------------------------------------------------------
\* State
\* ------------------------------------------------------------------------
VARIABLES
    tasks,       \* the caller's task list, the argument of ExecuteBatch
    parallel,    \* TaskExecutor.parallel
    maxWorkers,  \* TaskExecutor.maxWorkers
    pc,          \* position of the ExecuteBatch call
    taskGroups,  \* ExecuteBatch: the groups returned by analyzeTaskDependencies
    gi,          \* ExecuteBatch: index of the group being executed
    idx,         \* ExecuteBatch: index i of the sequential loop over the group
    call,        \* per task of a group: position of its ExecuteTask call / worker
    execErr,     \* per task of a group: the error ExecuteTask returned ("" = nil)
    semaphore,   \* executeParallel: number of tokens held in the semaphore channel
    errChan,     \* executeParallel: the buffered error channel (ids of failed tasks)
    errChanClosed, \* executeParallel: close(errChan) has happened
    batchErr,    \* return value of ExecuteBatch ("" = nil, "pending" = not returned)
    ctxDone,     \* the ambient context of ExecuteBatch has been cancelled
    rTasks,      \* analyzeTaskDependencies: the tasks argument
    rProcessed,  \* analyzeTaskDependencies: the keys of the processed map
    rGroups,     \* analyzeTaskDependencies: groups
    rPasses,     \* analyzeTaskDependencies: passes of the outer loop made so far
    rpc,         \* analyzeTaskDependencies: "idle", "loop" or "returned"
    planner,     \* which planner the agent holds: "TaskPlanner" or "IntelligentTaskPlanner"
    maxSteps,    \* TaskPlanner.maxSteps, the planning budget
    currentDepth, \* TaskPlanner.currentDepth
    planCalls,   \* number of Plan calls that have returned
    oracleCalls, \* number of llmProvider.Call invocations made by Plan
    ledger,      \* the entries the planner's recordManager.Record has appended
    response,    \* what the Oracle gave the last Plan call
    planErr,     \* the error of the last Plan call ("" = nil, "none" = no call yet)
    planTasks,   \* the Tasks of the PlanningResult of the last Plan call
    clock,       \* the last reading of time.Now()
    optInput,    \* OptimizePlan: the tasks argument
    optOnce,     \* OptimizePlan(tasks)
    optTwice,    \* OptimizePlan(OptimizePlan(tasks))
    opc,         \* number of OptimizePlan applications made: 0, 1 or 2
    needsPlan,   \* TaskPlanner.NeedsPlan: the message argument and the result
    messageManager, \* a MessageManager: its maxMessages and its messages
    executeTask, \* a task the caller hands to ExecuteTask directly, its call and ledger
    sharedContext, \* the caller's ExecutionContext and the workers that read it
    dynAgent     \* a DynAgent: its state, its ProcessMessage call and its ledger

executorVars == <<tasks, parallel, maxWorkers, pc, taskGroups, gi, idx, call, execErr,
                  semaphore, errChan, errChanClosed, batchErr>>

resolverVars == <<rTasks, rProcessed, rGroups, rPasses, rpc>>

plannerVars == <<planner, maxSteps, currentDepth, planCalls, oracleCalls, ledger,
                 response, planErr, planTasks>>

optimizerVars == <<optInput, optOnce, optTwice, opc>>

\* the components that are followed on their own
componentVars == <<needsPlan, messageManager, executeTask, sharedContext, dynAgent>>

vars == <<executorVars, ctxDone, resolverVars, plannerVars, clock, optimizerVars,
          componentVars>>

\* the state outside the executor
outsideExecutor == <<ctxDone, resolverVars, plannerVars, clock, optimizerVars,
                     componentVars>>

\* ------------------------------------------------------------------------
\* analyzeTaskDependencies
\* ------------------------------------------------------------------------
\* dependencyMap: task id -> its predecessor, for tasks with a non-empty Dependent
\* (a later task with the same id overwrites the entry of an earlier one)
DependencyMap(ts) ==
    LET keys == {ts[i].ID : i \in {j \in DOMAIN ts : ts[j].Dependent # ""}}
        last(id) == CHOOSE i \in DOMAIN ts :
                        /\ ts[i].ID = id /\ ts[i].Dependent # ""
                        /\ \A j \in DOMAIN ts :
                              (ts[j].ID = id /\ ts[j].Dependent # "") => j <= i
    IN  [id \in keys |-> ts[last(id)].Dependent]

\* canExecute that ignores the processed set
CanExecuteIgnoringProcessed(ts, task, processed) == TRUE

\* canExecute: every dependency of the task is already processed
CanExecute(ts, task, processed) ==
    LET dependencyMap == DependencyMap(ts)
    IN  task.ID \in DOMAIN dependencyMap => dependencyMap[task.ID] \in processed

\* one pass of the inner loop: the unprocessed tasks that can execute, in list order
CurrentGroup(ts, processed) ==
    SelectSeq(ts, LAMBDA task : task.ID \notin processed /\ CanExecute(ts, task, processed))

\* ids of the tasks of a list
IDsOf(ts) == {ts[i].ID : i \in DOMAIN ts}

\* an outer loop that, instead of stopping at a pass without eligible task, puts
\* the unprocessed tasks into a last group
RECURSIVE GroupLoopKeepingRest(_, _, _)
GroupLoopKeepingRest(ts, processed, groups) ==
    IF Cardinality(processed) < Len(ts)
    THEN LET currentGroup == CurrentGroup(ts, processed)
             rest == SelectSeq(ts, LAMBDA task : task.ID \notin processed)
         IN  IF Len(currentGroup) > 0
             THEN GroupLoopKeepingRest(ts, processed \cup IDsOf(currentGroup),
                                       Append(groups, currentGroup))
             ELSE IF Len(rest) > 0 THEN Append(groups, rest) ELSE groups
    ELSE groups

\* the outer loop: for len(processed) < len(tasks) { ... }
RECURSIVE GroupLoop(_, _, _)
GroupLoop(ts, processed, groups) ==
    IF Cardinality(processed) < Len(ts)
    THEN LET currentGroup == CurrentGroup(ts, processed)
         IN  IF Len(currentGroup) > 0
             THEN GroupLoop(ts, processed \cup IDsOf(currentGroup),
                            Append(groups, currentGroup))
             ELSE groups
    ELSE groups

\* a resolver that returns the whole list as one group
analyzeTaskDependenciesOneGroup(ts) == IF Len(ts) > 0 THEN <<ts>> ELSE <<>>

analyzeTaskDependencies(ts) == GroupLoop(ts, {}, <<>>)

\* ------------------------------------------------------------------------
\* CanParallelize
\* ------------------------------------------------------------------------
\* CanParallelize without the check of the task types
CanParallelizeNoTypeCheck(ts) ==
    ~ \E i \in DOMAIN ts : ts[i].Dependent # "" /\ ts[i].Dependent \in {ts[j].ID : j \in DOMAIN ts}

CanParallelize(ts) ==
    LET taskIDs == IDsOf(ts)
    IN  /\ ~ \E i \in DOMAIN ts : ts[i].Dependent # "" /\ ts[i].Dependent \in taskIDs
        /\ ~ \E i \in DOMAIN ts : ts[i].Type = SubTaskTypeAgentGen

\* ------------------------------------------------------------------------
\* ExecuteTask
\* ------------------------------------------------------------------------
\* the errors the handler of a task type can return ("" = nil)
HandlerErrors(type) ==
    CASE type = SubTaskTypeFunction ->
             {"", "function not found", "invalid arguments", "function execution failed"}
      [] type = SubTaskTypeAgentCall -> {"", "agent call failed"}
      [] OTHER -> {"", "LLM call failed"}

\* the outcomes of recordManager.Record for the "started" entry
RecordErrors == {"", "failed to record task start"}

\* replace task i of group g
SetTask(groups, g, i, task) == [groups EXCEPT ![g][i] = task]

\* no NeedsPlan call is followed
NeedsPlanIdle == needsPlan = [message |-> <<>>, called |-> FALSE, result |-> FALSE]

\* no MessageManager is followed
MessageManagerIdle ==
    messageManager = [maxMessages |-> 0, messages |-> <<>>, added |-> <<>>]

\* no direct ExecuteTask call is followed
ExecuteTaskIdle ==
    executeTask = [pc |-> "none", Type |-> "", State |-> "", calls |-> 0,
                   ledger |-> <<>>, recordID |-> "", execErr |-> "", err |-> ""]

\* no shared ExecutionContext is followed
SharedContextIdle ==
    sharedContext = [parallel |-> FALSE,
                     AgentChain |-> [len |-> 0, cap |-> 0], chainArray |-> <<>>,
                     Messages |-> [len |-> 0, cap |-> 0], messageArray |-> <<>>,
                     chainBefore |-> <<>>, messagesBefore |-> <<>>,
                     workers |-> <<>>]

\* no DynAgent is followed
DynAgentIdle ==
    dynAgent = [pc |-> "none", state |-> "", requests |-> 0, returned |-> "none",
                err |-> "", records |-> <<>>]

ComponentsIdle ==
    /\ NeedsPlanIdle
    /\ MessageManagerIdle
    /\ ExecuteTaskIdle
    /\ SharedContextIdle
    /\ DynAgentIdle

\* no planner is followed
PlannerIdle ==
    /\ planner = "TaskPlanner"
    /\ maxSteps = <<>>
    /\ currentDepth = 0
    /\ planCalls = 0
    /\ oracleCalls = 0
    /\ ledger = <<>>
    /\ response = [kind |-> "none", tasks |-> <<>>]
    /\ planErr = "none"
    /\ planTasks = <<>>

\* no OptimizePlan call is followed
OptimizerIdle ==
    /\ clock = 0
    /\ optInput = <<>>
    /\ optOnce = <<>>
    /\ optTwice = <<>>
    /\ opc = 0

\* no resolver call is being followed pass by pass
ResolverIdle ==
    /\ rTasks = <<>>
    /\ rProcessed = {}
    /\ rGroups = <<>>
    /\ rPasses = 0
    /\ rpc = "idle"

\* the state before ExecuteBatch is called on an executor whose worker limit is
\* one of limits
ExecutorInit(limits) ==
    /\ \E n \in 0..MaxTasks :
          \E d \in [1..n -> DependentChoices(n)], t \in [1..n -> TaskTypes] :
             /\ Cardinality({i \in 1..n : t[i] = SubTaskTypeAgentGen}) <= MaxAgentGen
             /\ tasks = InputList(n, d, t)
    /\ parallel \in BOOLEAN
    /\ maxWorkers \in limits
    /\ (~parallel => maxWorkers = DefaultMaxWorkers)
    /\ pc = "idle"
    /\ taskGroups = <<>>
    /\ gi = 0
    /\ idx = 0
    /\ call = <<>>
    /\ execErr = <<>>
    /\ semaphore = 0
    /\ errChan = <<>>
    /\ errChanClosed = FALSE
    /\ batchErr = "pending"
    /\ ctxDone = FALSE
    /\ ResolverIdle
    /\ PlannerIdle
    /\ OptimizerIdle
    /\ ComponentsIdle

Init == ExecutorInit(WorkerLimits)

\* ExecuteBatch, up to the loop over the groups
ExecuteBatchCall ==
    /\ pc = "idle"
    /\ \/ /\ Len(tasks) = 0
          /\ pc' = "done"
          /\ batchErr' = ""
          /\ UNCHANGED <<taskGroups, gi, call, execErr>>
       \/ /\ Len(tasks) # 0
          /\ taskGroups' = analyzeTaskDependencies(tasks)
          /\ call' = [g \in DOMAIN taskGroups' |->
                         [i \in DOMAIN taskGroups'[g] |-> "notcalled"]]
          /\ execErr' = [g \in DOMAIN taskGroups' |->
                         [i \in DOMAIN taskGroups'[g] |-> ""]]
          /\ gi' = 1
          /\ pc' = "group"
          /\ UNCHANGED batchErr
    /\ UNCHANGED <<tasks, parallel, maxWorkers, idx, semaphore, errChan,
                   errChanClosed>>

\* ExecuteBatch: head of the loop over the groups, and the choice between the
\* parallel and the sequential branch
ExpectParallel(group) == parallel /\ CanParallelize(group)

GroupDispatch ==
    /\ pc = "group"
    /\ \/ /\ gi > Len(taskGroups)
          /\ pc' = "done"
          /\ batchErr' = ""
          /\ UNCHANGED <<idx, call>>
       \/ /\ gi <= Len(taskGroups)
          /\ ExpectParallel(taskGroups[gi])
          \* executeParallel: one goroutine per task of the group
          /\ call' = [call EXCEPT ![gi] = [i \in DOMAIN call[gi] |-> "spawned"]]
          /\ pc' = "parallel"
          /\ UNCHANGED <<idx, batchErr>>
       \/ /\ gi <= Len(taskGroups)
          /\ ~ExpectParallel(taskGroups[gi])
          /\ idx' = 1
          /\ pc' = "serial"
          /\ UNCHANGED <<call, batchErr>>
    /\ UNCHANGED <<tasks, parallel, maxWorkers, taskGroups, gi, execErr, semaphore,
                   errChan, errChanClosed>>

\* a semaphore channel that never blocks
SemaphoreUnbounded(held) == TRUE

\* the semaphore channel accepts another token
SemaphoreHasRoom(held) == held < maxWorkers

\* the callers of ExecuteTask: the sequential loop at index idx, or a worker
\* goroutine once its send on the semaphore channel goes through
Dispatched(i) ==
    \/ pc = "serial" /\ i = idx /\ call[gi][i] = "notcalled"
    \/ pc = "parallel" /\ call[gi][i] = "spawned" /\ SemaphoreHasRoom(semaphore)

\* ExecuteTask entry (in a worker: after semaphore <- struct{}{}):
\* task.State = running, up to the call of recordManager.Record
ExecuteTaskEnter(i) ==
    /\ pc \in {"serial", "parallel"}
    /\ Dispatched(i)
    /\ taskGroups' = SetTask(taskGroups, gi, i,
                             [taskGroups[gi][i] EXCEPT !.State = TaskStateRunning])
    /\ call' = [call EXCEPT ![gi][i] = "entered"]
    /\ semaphore' = IF pc = "parallel" THEN semaphore + 1 ELSE semaphore
    /\ UNCHANGED <<tasks, parallel, maxWorkers, pc, gi, idx, execErr,
                   errChan, errChanClosed, batchErr>>

\* a sequential loop that leaves the group at the first error
SerialNextBreakOnError(i, err) == IF err # "" THEN MaxTasks + 2 ELSE i + 1

\* sequential loop: the index after ExecuteTask returned err for task i
SerialNext(i, err) == i + 1

\* what the caller of ExecuteTask does when it returns err for task i:
\* the sequential loop prints the error and goes on with the next task (after the
\* last one, with the next group); a worker sends the error to errChan, releases
\* the semaphore and calls wg.Done()
ExecuteTaskReturn(i, err) ==
    /\ call' = [call EXCEPT ![gi][i] = "returned"]
    /\ execErr' = [execErr EXCEPT ![gi][i] = err]
    /\ IF pc = "serial"
       THEN /\ LET next == SerialNext(i, err)
               IN  IF next <= Len(taskGroups[gi])
                   THEN /\ idx' = next
                        /\ UNCHANGED <<gi, pc>>
                   ELSE /\ idx' = 0
                        /\ gi' = gi + 1
                        /\ pc' = "group"
            /\ UNCHANGED <<errChan, semaphore>>
       ELSE /\ errChan' = IF err # ""
                          THEN Append(errChan, taskGroups[gi][i].ID)
                          ELSE errChan
            /\ semaphore' = semaphore - 1
            /\ UNCHANGED <<idx, gi, pc>>

\* ExecuteTask: recordManager.Record of the "started" entry returns; on an error
\* ExecuteTask returns it, otherwise the handler of the task type is called
ExecuteTaskRecord(i) ==
    /\ pc \in {"serial", "parallel"}
    /\ call[gi][i] = "entered"
    /\ \E err \in RecordErrors :
          IF err # ""
          THEN ExecuteTaskReturn(i, err)
          ELSE /\ call' = [call EXCEPT ![gi][i] = "recorded"]
               /\ UNCHANGED <<execErr, idx, gi, pc, errChan, semaphore>>
    /\ UNCHANGED <<tasks, parallel, maxWorkers, taskGroups,
                   errChanClosed, batchErr>>

\* the task state ExecuteTask sets from the handler's result
FinalState(task, err) ==
    IF err # ""
    THEN [task EXCEPT !.State = TaskStateFail, !.StateMsg = err]
    ELSE [task EXCEPT !.State = TaskStateSuccess]

\* ExecuteTask: the handler returns; final state, completion records, return
ExecuteTaskHandler(i) ==
    /\ pc \in {"serial", "parallel"}
    /\ call[gi][i] = "recorded"
    /\ \E err \in HandlerErrors(taskGroups[gi][i].Type) :
          /\ taskGroups' = SetTask(taskGroups, gi, i, FinalState(taskGroups[gi][i], err))
          /\ ExecuteTaskReturn(i, err)
    /\ UNCHANGED <<tasks, parallel, maxWorkers, errChanClosed, batchErr>>

\* wg.Wait() returns: every worker of the group has called wg.Done()
WaitGroupDone == \A i \in DOMAIN call[gi] : call[gi][i] = "returned"

\* executeParallel: go func() { wg.Wait(); close(errChan) }()
CloseErrChan ==
    /\ pc = "parallel"
    /\ ~errChanClosed
    /\ WaitGroupDone
    /\ errChanClosed' = TRUE
    /\ UNCHANGED <<tasks, parallel, maxWorkers, pc, taskGroups, gi, idx, call, execErr,
                   semaphore, errChan, batchErr>>

\* ExecuteBatch after executeParallel returned err ("" = nil): the next group,
\* or the return value of the batch
AfterParallel(err) ==
    IF err # "" THEN "parallel execution failed" ELSE ""

\* the error executeParallel returns for the errors collected from errChan
ParallelError(errs) ==
    IF Len(errs) > 0 THEN "parallel execution had errors" ELSE ""

\* executeParallel: for err := range errChan { errs = append(errs, err) } ends
\* once errChan is closed; the errors received are those sent, in the order sent
ParallelReturn ==
    /\ pc = "parallel"
    /\ errChanClosed
    /\ LET errs == errChan
       IN  IF AfterParallel(ParallelError(errs)) # ""
           THEN /\ batchErr' = AfterParallel(ParallelError(errs))
                /\ pc' = "done"
                /\ UNCHANGED gi
           ELSE /\ gi' = gi + 1
                /\ pc' = "group"
                /\ UNCHANGED batchErr
    /\ errChan' = <<>>
    /\ errChanClosed' = FALSE
    /\ UNCHANGED <<tasks, parallel, maxWorkers, taskGroups, idx, call, execErr,
                   semaphore>>

\* the indices of the group being executed: for i := range group
GroupIndices == IF gi \in DOMAIN taskGroups THEN DOMAIN taskGroups[gi] ELSE {}

Next ==
    \/ ExecuteBatchCall /\ UNCHANGED outsideExecutor
    \/ GroupDispatch /\ UNCHANGED outsideExecutor
    \/ \E i \in GroupIndices : ExecuteTaskEnter(i) /\ UNCHANGED outsideExecutor
    \/ \E i \in GroupIndices : ExecuteTaskRecord(i) /\ UNCHANGED outsideExecutor
    \/ \E i \in GroupIndices : ExecuteTaskHandler(i) /\ UNCHANGED outsideExecutor
    \/ CloseErrChan /\ UNCHANGED outsideExecutor
    \/ ParallelReturn /\ UNCHANGED outsideExecutor

Spec == Init /\ [][Next]_vars

\* ------------------------------------------------------------------------
\* ExecuteBatch under cancellation of its context
\* ------------------------------------------------------------------------
\* the caller cancels ctx while ExecuteBatch is running; neither ExecuteBatch nor
\* executeParallel reads ctx.Done() or ctx.Err(), so no executor action depends on it
CancelContext ==
    /\ pc \notin {"idle", "done"}
    /\ ~ctxDone
    /\ ctxDone' = TRUE
    /\ UNCHANGED <<executorVars, resolverVars, plannerVars, clock, optimizerVars, componentVars>>

NextCancel ==
    \/ Next
    \/ CancelContext

SpecCancel == Init /\ [][NextCancel]_vars

\* ------------------------------------------------------------------------
\* analyzeTaskDependencies, one pass of the outer loop per step
\* ------------------------------------------------------------------------
\* bound: length of the lists given to the resolver
MaxResolverTasks == 3

\* the ids of the resolver's lists: two tasks may carry the same id
ResolverIDs == {IdOf(i) : i \in 1..3}

\* the task lists, ids not necessarily distinct, predecessors empty, an id of the
\* list's id space (possibly the task's own) or dangling
ResolverList(n, ids, deps) == [i \in 1..n |-> SubTask(ids[i], deps[i], SubTaskTypeTask)]

\* the executor state while only the resolver is followed
ExecutorIdle ==
    /\ tasks = <<>>
    /\ parallel = FALSE
    /\ maxWorkers = DefaultMaxWorkers
    /\ pc = "idle"
    /\ taskGroups = <<>>
    /\ gi = 0
    /\ idx = 0
    /\ call = <<>>
    /\ execErr = <<>>
    /\ semaphore = 0
    /\ errChan = <<>>
    /\ errChanClosed = FALSE
    /\ batchErr = "pending"
    /\ ctxDone = FALSE

ResolverInit ==
    /\ ExecutorIdle
    /\ \E n \in 0..MaxResolverTasks :
          \E ids \in [1..n -> ResolverIDs],
             deps \in [1..n -> {""} \cup ResolverIDs \cup {DanglingID}] :
             rTasks = ResolverList(n, ids, deps)
    /\ rProcessed = {}
    /\ rGroups = <<>>
    /\ rPasses = 0
    /\ rpc = "idle"
    /\ PlannerIdle
    /\ OptimizerIdle
    /\ ComponentsIdle

\* the call: dependencyMap is built, groups and processed are empty
ResolverCall ==
    /\ rpc = "idle"
    /\ rpc' = "loop"
    /\ UNCHANGED <<rTasks, rProcessed, rGroups, rPasses>>
    /\ UNCHANGED <<executorVars, ctxDone, plannerVars, clock, optimizerVars, componentVars>>

\* a loop that goes on after a pass without eligible task
LoopNeverBreaks(currentGroup) == TRUE

\* if len(currentGroup) > 0 { append } else { break }
LoopGoesOn(currentGroup) == Len(currentGroup) > 0

\* one evaluation of the loop condition and, if it holds, one pass of the loop body
ResolverPass ==
    /\ rpc = "loop"
    /\ IF Cardinality(rProcessed) < Len(rTasks)
       THEN LET currentGroup == CurrentGroup(rTasks, rProcessed)
            IN  /\ rPasses' = rPasses + 1
                /\ rProcessed' = rProcessed \cup IDsOf(currentGroup)
                /\ rGroups' = IF Len(currentGroup) > 0
                              THEN Append(rGroups, currentGroup)
                              ELSE rGroups
                /\ rpc' = IF LoopGoesOn(currentGroup) THEN "loop" ELSE "returned"
       ELSE /\ rpc' = "returned"
            /\ UNCHANGED <<rProcessed, rGroups, rPasses>>
    /\ UNCHANGED rTasks
    /\ UNCHANGED <<executorVars, ctxDone, plannerVars, clock, optimizerVars, componentVars>>

ResolverNext ==
    \/ ResolverCall
    \/ ResolverPass

SpecResolver == ResolverInit /\ [][ResolverNext]_vars

\* ------------------------------------------------------------------------
\* TaskPlanner.OptimizePlan
\* ------------------------------------------------------------------------
\* bound: length of the lists given to OptimizePlan
MaxOptTasks == 3

\* bound: the readings of time.Now()
MaxClock == 2

\* a Process text, as the sequence of its words
ProcessPlain == <<"Query", "the", "database">>
ProcessFunction == <<"call", "FUNCTION:", "sum">>

\* strings.ToLower on the words of the Process texts
ToLower(word) ==
    CASE word = "Query" -> "query"
      [] word = "FUNCTION:" -> "function:"
      [] word = "What is" -> "what is"
      [] word = "Define" -> "define"
      [] word = "Analyze" -> "analyze"
      [] word = "List" -> "list"
      [] OTHER -> word

\* strings.Contains(strings.ToLower(process), marker)
ContainsLower(process, marker) == \E k \in DOMAIN process : ToLower(process[k]) = marker

inferTaskType(process) ==
    IF ContainsLower(process, "<function_call>") \/ ContainsLower(process, "function:")
    THEN SubTaskTypeFunction
    ELSE IF ContainsLower(process, "<agent_call>") \/ ContainsLower(process, "agent:")
    THEN SubTaskTypeAgentCall
    ELSE IF ContainsLower(process, "<agent_gen>")
    THEN SubTaskTypeAgentGen
    ELSE SubTaskTypeTask

\* a models.SubTask with the fields the planner reads and writes
PlanTask(id, description, process, type, dependent, state, created, updated) ==
    [ID |-> id, Description |-> description, Process |-> process, Type |-> type,
     Dependent |-> dependent, State |-> state, CreatedAt |-> created, UpdatedAt |-> updated]

\* uuid.New().String(): a value no earlier call has produced; seed numbers the
\* call that draws it and k the draw within the call
NewUUID(seed, k) == "uuid-" \o ToString(seed) \o "-" \o ToString(k)

\* a duplicate check that finds nothing
IsDuplicateNever(optimized, task) == FALSE

\* for _, existing := range optimized { if existing.Description == task.Description }
IsDuplicate(optimized, task) ==
    \E j \in DOMAIN optimized : optimized[j].Description = task.Description

\* a field repair that draws a new id for every task it keeps
EnsureFieldsNewID(task, now, uuid) ==
    [task EXCEPT !.ID = uuid,
                 !.State = IF @ = "" THEN TaskStateWait ELSE @,
                 !.Type = IF @ = "" THEN inferTaskType(task.Process) ELSE @,
                 !.CreatedAt = now,
                 !.UpdatedAt = now]

\* "Ensure task has required fields", and the two time stamps
EnsureFields(task, now, uuid) ==
    [task EXCEPT !.ID = IF @ = "" THEN uuid ELSE @,
                 !.State = IF @ = "" THEN TaskStateWait ELSE @,
                 !.Type = IF @ = "" THEN inferTaskType(task.Process) ELSE @,
                 !.CreatedAt = now,
                 !.UpdatedAt = now]

\* the loop of OptimizePlan from task k on
RECURSIVE OptimizeLoop(_, _, _, _, _)
OptimizeLoop(ts, k, optimized, now, seed) ==
    IF k > Len(ts) THEN optimized
    ELSE IF ts[k].Description = "" \/ IsDuplicate(optimized, ts[k])
         THEN OptimizeLoop(ts, k + 1, optimized, now, seed)
         ELSE OptimizeLoop(ts, k + 1,
                           Append(optimized, EnsureFields(ts[k], now, NewUUID(seed, k))),
                           now, seed)

OptimizePlan(ts, now, seed) == OptimizeLoop(ts, 1, <<>>, now, seed)

\* the inputs: description empty or one of two texts; ID empty or given; State and
\* Type given, or both empty with a Process text that decides the inferred type
OptDescriptions == {"", "A", "B"}

OptFieldChoices ==
    {[State |-> TaskStateRunning, Type |-> SubTaskTypeAgentCall, Process |-> ProcessPlain],
     [State |-> "", Type |-> "", Process |-> ProcessPlain],
     [State |-> "", Type |-> "", Process |-> ProcessFunction]}

OptInputList(n, descs, given, fields) ==
    [i \in 1..n |->
        PlanTask(IF given[i] THEN IdOf(i) ELSE "", descs[i], fields[i].Process,
                 fields[i].Type, "", fields[i].State, 0, 0)]

OptimizerInit ==
    /\ ExecutorIdle
    /\ ResolverIdle
    /\ PlannerIdle
    /\ ComponentsIdle
    /\ clock = 0
    /\ \E n \in 0..MaxOptTasks :
          \E descs \in [1..n -> OptDescriptions], given \in [1..n -> BOOLEAN],
             fields \in [1..n -> OptFieldChoices] :
             optInput = OptInputList(n, descs, given, fields)
    /\ optOnce = <<>>
    /\ optTwice = <<>>
    /\ opc = 0

\* p.OptimizePlan(tasks), at some reading of the clock
OptimizePlanCall ==
    /\ opc = 0
    /\ \E now \in (clock + 1)..MaxClock :
          /\ clock' = now
          /\ optOnce' = OptimizePlan(optInput, now, 1)
    /\ opc' = 1
    /\ UNCHANGED <<optInput, optTwice>>
    /\ UNCHANGED <<executorVars, ctxDone, resolverVars, plannerVars, componentVars>>

\* p.OptimizePlan applied to the list the first call returned, at the same or a
\* later reading of the clock
OptimizePlanAgain ==
    /\ opc = 1
    /\ \E now \in clock..MaxClock :
          /\ clock' = now
          /\ optTwice' = OptimizePlan(optOnce, now, 2)
    /\ opc' = 2
    /\ UNCHANGED <<optInput, optOnce>>
    /\ UNCHANGED <<executorVars, ctxDone, resolverVars, plannerVars, componentVars>>

OptimizerNext ==
    \/ OptimizePlanCall
    \/ OptimizePlanAgain

SpecOptimizer == OptimizerInit /\ [][OptimizerNext]_vars

\* ------------------------------------------------------------------------
\* TaskPlanner.Plan and IntelligentTaskPlanner.Plan
\* ------------------------------------------------------------------------
\* bound: length of the planning budget, config.MaxSteps
MaxBudget == 2

\* bound: number of Plan calls made on one planner
MaxPlanCalls == 3

\* bound: number of tasks in an Oracle proposal
MaxProposal == 2

Planners == {"TaskPlanner", "IntelligentTaskPlanner"}

\* config.MaxSteps of length len: 5 steps at the first level, 3 below
Budget(len) == [i \in 1..len |-> IF i = 1 THEN 5 ELSE 3]

\* how the Oracle, which is shown no task id, names the i-th task of its proposal
OracleRef(i) == "task_" \o ToString(i - 1)

\* a task of the proposal: the JSON fields the planners decode
RawTask(id, description, type, dependent) ==
    [ID |-> id, Description |-> description, Process |-> ProcessPlain,
     Type |-> type, Dependent |-> dependent]

\* the proposals: descriptions empty or one of two texts, a type, the
\* predecessor empty or the Oracle's name of a task of the proposal; withIDs: the
\* proposal carries an id per task (a field only IntelligentTaskPlanner decodes)
Proposal(n, descs, types, deps, withIDs) ==
    [i \in 1..n |->
        RawTask(IF withIDs THEN OracleRef(i) ELSE "", descs[i], types[i], deps[i])]

\* what llmProvider.Call can give: an error; a text without braces; a text with
\* braces that json.Unmarshal rejects; a text with a JSON proposal
NoResponse == [kind |-> "none", tasks |-> <<>>]
OracleError == [kind |-> "error", tasks |-> <<>>]
Undecodable == {[kind |-> "no_json", tasks |-> <<>>], [kind |-> "bad_json", tasks |-> <<>>]}
Decodable(raws) == [kind |-> "proposal", tasks |-> raws]

\* uuid.New().String()[:8] of the k-th task decoded by call seed
UUID8(seed, k) == "u" \o ToString(seed) \o ToString(k)

\* fmt.Sprintf("task_%d_%s", i, uuid.New().String()[:8]), i counting from 0
GeneratedID(i, seed) == "task_" \o ToString(i - 1) \o "_" \o UUID8(seed, i)

\* the conversion loop of parsePlanningResult
parsePlanningResult(raws, now, seed) ==
    [i \in DOMAIN raws |->
        PlanTask(GeneratedID(i, seed), raws[i].Description, raws[i].Process,
                 raws[i].Type, raws[i].Dependent, TaskStateWait, now, now)]

\* a planning entry of the ledger
PlanningRecord(parent, depth, status) ==
    [type |-> "planning", parent_id |-> parent, depth |-> depth, status |-> status]

\* the id recordManager.Record returns for the entry it appends to led
RecordID(led) == "rec_" \o ToString(Len(led) + 1)

\* execContext.ParentRecordID of the caller
ParentRecordID == "caller"

PlannerInit ==
    /\ ExecutorIdle
    /\ ResolverIdle
    /\ OptimizerIdle
    /\ ComponentsIdle
    /\ planner \in Planners
    /\ \E len \in 0..MaxBudget : maxSteps = Budget(len)
    /\ currentDepth = 0
    /\ planCalls = 0
    /\ oracleCalls = 0
    /\ ledger = <<>>
    /\ response = NoResponse
    /\ planErr = "none"
    /\ planTasks = <<>>

\* the return of a Plan call
PlanReturn(err, ts, resp, led, oracle) ==
    /\ planCalls' = planCalls + 1
    /\ planErr' = err
    /\ planTasks' = ts
    /\ response' = resp
    /\ ledger' = led
    /\ oracleCalls' = oracleCalls + oracle
    /\ clock' = clock + 1
    /\ UNCHANGED <<planner, maxSteps, currentDepth>>
    /\ UNCHANGED <<executorVars, ctxDone, resolverVars, optimizerVars, componentVars>>

\* the entry "status": "started" of Plan
StartedRecord == PlanningRecord(ParentRecordID, currentDepth, "started")

\* TaskPlanner.Plan: if p.currentDepth >= len(p.maxSteps)
PlanDepthReached ==
    /\ planner = "TaskPlanner" /\ planCalls < MaxPlanCalls
    /\ currentDepth >= Len(maxSteps)
    /\ PlanReturn("max planning depth reached", <<>>, NoResponse, ledger, 0)

\* TaskPlanner.Plan: recordManager.Record of the started entry fails
PlanRecordFails ==
    /\ planner = "TaskPlanner" /\ planCalls < MaxPlanCalls
    /\ currentDepth < Len(maxSteps)
    /\ PlanReturn("failed to record planning start", <<>>, NoResponse, ledger, 0)

\* TaskPlanner.Plan: llmProvider.Call fails
PlanOracleFails ==
    /\ planner = "TaskPlanner" /\ planCalls < MaxPlanCalls
    /\ currentDepth < Len(maxSteps)
    /\ PlanReturn("LLM call failed", <<>>, OracleError, Append(ledger, StartedRecord), 1)

\* TaskPlanner.Plan: parsePlanningResult fails
PlanParseFails ==
    /\ planner = "TaskPlanner" /\ planCalls < MaxPlanCalls
    /\ currentDepth < Len(maxSteps)
    /\ \E resp \in Undecodable :
          PlanReturn("failed to parse planning result", <<>>, resp,
                     Append(ledger, StartedRecord), 1)

\* TaskPlanner.Plan: the proposal is decoded, optimized and recorded
PlanSucceeds ==
    /\ planner = "TaskPlanner" /\ planCalls < MaxPlanCalls
    /\ currentDepth < Len(maxSteps)
    /\ \E n \in 0..MaxProposal :
          \E descs \in [1..n -> OptDescriptions], types \in [1..n -> {SubTaskTypeTask}],
             deps \in [1..n -> {""} \cup {OracleRef(i) : i \in 1..n}] :
             LET raws == Proposal(n, descs, types, deps, FALSE)
                 seed == planCalls + 1
                 now == clock + 1
                 planRecordID == RecordID(ledger)
             IN  PlanReturn("",
                            OptimizePlan(parsePlanningResult(raws, now, seed), now, seed),
                            Decodable(raws),
                            ledger \o <<StartedRecord,
                                        PlanningRecord(planRecordID, currentDepth, "completed")>>,
                            1)

\* the words of the message createDefaultPlan looks for: research and analysis
\* stand for the two keywords of its first branch, generate and create for the two
\* of its second
Messages == {{}, {"analysis"}, {"create"}, {"research", "generate"}}

\* the three-task and one-task plans of createDefaultPlan
DefaultTask(i, seed, description, type, dependent, now) ==
    PlanTask(GeneratedID(i, seed), description, <<>>, type, dependent, TaskStateWait, now, now)

createDefaultPlan(message, now, seed) ==
    IF "research" \in message \/ "analysis" \in message
    THEN <<DefaultTask(1, seed, "collect", SubTaskTypeAgentCall, "", now),
           DefaultTask(2, seed, "analyse", SubTaskTypeTask, GeneratedID(1, seed), now),
           DefaultTask(3, seed, "report", SubTaskTypeAgentGen, GeneratedID(2, seed), now)>>
    ELSE IF "generate" \in message \/ "create" \in message
    THEN <<DefaultTask(1, seed, "requirements", SubTaskTypeTask, "", now),
           DefaultTask(2, seed, "content", SubTaskTypeAgentGen, GeneratedID(1, seed), now),
           DefaultTask(3, seed, "quality", SubTaskTypeTask, GeneratedID(2, seed), now)>>
    ELSE <<DefaultTask(1, seed, "execute", SubTaskTypeTask, "", now)>>

\* IntelligentTaskPlanner.mapTaskType
mapTaskType(taskType) ==
    CASE taskType = "research" -> SubTaskTypeAgentCall
      [] taskType = "analysis" -> SubTaskTypeFunction
      [] taskType = "generation" -> SubTaskTypeAgentGen
      [] taskType = "execution" -> SubTaskTypeTask
      [] taskType = "synthesis" -> SubTaskTypeAgentCall
      [] OTHER -> SubTaskTypeTask

\* the conversion loop of parsePlanningResponse: the Oracle's id is kept unless it
\* is empty or a placeholder; the description is extended by the execution details
parsePlanningResponse(raws, now, seed) ==
    [i \in DOMAIN raws |->
        PlanTask(IF raws[i].ID \in {"", "task_uuid", "task_xxx"}
                 THEN GeneratedID(i, seed) ELSE raws[i].ID,
                 raws[i].Description \o " (strategy, input, output, validation)",
                 <<"method", "capabilities", "parallel">>,
                 mapTaskType(raws[i].Type), raws[i].Dependent, TaskStateWait, now, now)]

\* IntelligentTaskPlanner.Plan: llmProvider.Call fails
IntelligentPlanOracleFails ==
    /\ planner = "IntelligentTaskPlanner" /\ planCalls < MaxPlanCalls
    /\ PlanReturn("LLM call failed", <<>>, OracleError, ledger, 1)

\* IntelligentTaskPlanner.Plan: parsePlanningResponse fails, the default plan is returned
IntelligentPlanDefault ==
    /\ planner = "IntelligentTaskPlanner" /\ planCalls < MaxPlanCalls
    /\ \E resp \in Undecodable, message \in Messages :
          PlanReturn("", createDefaultPlan(message, clock + 1, planCalls + 1), resp, ledger, 1)

\* IntelligentTaskPlanner.Plan: the proposal is decoded and recorded
IntelligentPlanSucceeds ==
    /\ planner = "IntelligentTaskPlanner" /\ planCalls < MaxPlanCalls
    /\ \E n \in 0..MaxProposal, withIDs \in BOOLEAN :
          \E descs \in [1..n -> OptDescriptions], types \in [1..n -> {"generation"}],
             deps \in [1..n -> {""} \cup {OracleRef(i) : i \in 1..n}] :
             LET raws == Proposal(n, descs, types, deps, withIDs)
             IN  PlanReturn("", parsePlanningResponse(raws, clock + 1, planCalls + 1),
                            Decodable(raws),
                            Append(ledger, PlanningRecord("", 0, "")), 1)

PlannerNext ==
    \/ PlanDepthReached
    \/ PlanRecordFails
    \/ PlanOracleFails
    \/ PlanParseFails
    \/ PlanSucceeds
    \/ IntelligentPlanOracleFails
    \/ IntelligentPlanDefault
    \/ IntelligentPlanSucceeds

SpecPlanner == PlannerInit /\ [][PlannerNext]_vars

\* ------------------------------------------------------------------------
\* Vocabulary of the properties
\* ------------------------------------------------------------------------
\* the positions <<g, i>> of the tasks of the groups
Positions == UNION { { <<g, i>> : i \in DOMAIN taskGroups[g] } : g \in DOMAIN taskGroups }

TaskAt(p) == taskGroups[p[1]][p[2]]
CallAt(p) == call[p[1]][p[2]]
ErrAt(p) == execErr[p[1]][p[2]]

Terminal(state) == state \in {TaskStateSuccess, TaskStateFail}

\* the ExecuteTask call of the task has started and not yet returned
InsideExecuteTask(p) == CallAt(p) \in {"entered", "recorded"}

\* the handler of the task has run: ExecuteTask returned after its "started" record
HandlerRan(p) == CallAt(p) = "returned" /\ ErrAt(p) # "failed to record task start"

\* the group is executed by executeParallel
RunsParallel(g) == parallel /\ CanParallelize(taskGroups[g])

\* ------------------------------------------------------------------------
\* C1
\* ------------------------------------------------------------------------
\* C1: whenever ExecuteTask has returned for a task, the state of that task is
\* success or fail (never wait or running), whatever the handler and the ledger did.
C1_TerminalStateOnReturn ==
    \A p \in Positions : CallAt(p) = "returned" => Terminal(TaskAt(p).State)

\* ------------------------------------------------------------------------
\* C2
\* ------------------------------------------------------------------------
\* C2: a task that has entered state running (or gone beyond it) has a predecessor
\* that, when it is a task of the batch, has already reached success or fail.
C2_PredecessorTerminalBeforeRunning ==
    \A p \in Positions :
        (TaskAt(p).State # TaskStateWait /\ TaskAt(p).Dependent \in IDsOf(tasks))
        => \E q \in Positions : /\ TaskAt(q).ID = TaskAt(p).Dependent
                                /\ Terminal(TaskAt(q).State)

\* ------------------------------------------------------------------------
\* C3
\* ------------------------------------------------------------------------
\* C3: during a parallel wave the number of tasks inside ExecuteTask (all of them
\* in state running) never exceeds the configured worker limit.
C3_WorkerLimit ==
    pc = "parallel" =>
        /\ Cardinality({p \in Positions : InsideExecuteTask(p)}) <= maxWorkers
        /\ \A p \in Positions : InsideExecuteTask(p) => TaskAt(p).State = TaskStateRunning

\* a parallel wave in which the limit is reached while another worker still waits
\* for the semaphore
C3_Witness ==
    /\ pc = "parallel"
    /\ maxWorkers = 2
    /\ Cardinality({p \in Positions : InsideExecuteTask(p)}) = maxWorkers
    /\ \E p \in Positions : CallAt(p) = "spawned"

\* ------------------------------------------------------------------------
\* C4
\* ------------------------------------------------------------------------
\* the predecessor of every task is empty or the id of a task of the list
FullyInternal(ts) == \A i \in DOMAIN ts : ts[i].Dependent \in {""} \cup IDsOf(ts)

\* the task of the list with the given id (ids are distinct)
IndexOfID(ts, id) == CHOOSE i \in DOMAIN ts : ts[i].ID = id

\* following the predecessor of task i for at most fuel steps ends at a task
\* without predecessor
RECURSIVE ChainEnds(_, _, _)
ChainEnds(ts, i, fuel) ==
    IF ts[i].Dependent = "" THEN TRUE
    ELSE IF fuel = 0 THEN FALSE
    ELSE ChainEnds(ts, IndexOfID(ts, ts[i].Dependent), fuel - 1)

Acyclic(ts) == \A i \in DOMAIN ts : ChainEnds(ts, i, Len(ts))

\* the groups in which a task with the given id occurs
WavesOfID(id) == {p \in Positions : TaskAt(p).ID = id}

\* the state in which ExecuteBatch has just received the groups of the resolver
Resolved == pc = "group" /\ gi = 1

\* C4: for an acyclic, fully internally referenced list with distinct ids the groups
\* returned by analyzeTaskDependencies hold every input task exactly once (and
\* nothing else), and every task lies in a strictly later group than its predecessor.
C4_ResolverComplete ==
    (Resolved /\ FullyInternal(tasks) /\ Acyclic(tasks)) =>
        /\ \A i \in DOMAIN tasks :
              /\ Cardinality(WavesOfID(tasks[i].ID)) = 1
              /\ \A p \in WavesOfID(tasks[i].ID) :
                    /\ TaskAt(p).Dependent = tasks[i].Dependent
                    /\ TaskAt(p).Type = tasks[i].Type
        /\ Cardinality(Positions) = Len(tasks)
        /\ \A p \in Positions :
              TaskAt(p).Dependent # "" =>
                  \A q \in WavesOfID(TaskAt(p).Dependent) : q[1] < p[1]

\* a chain t1 <- t3 <- t2 resolved into three groups
C4_Witness ==
    /\ Resolved
    /\ Len(tasks) = 3
    /\ FullyInternal(tasks) /\ Acyclic(tasks)
    /\ tasks[2].Dependent = "t3" /\ tasks[3].Dependent = "t1"
    /\ Len(taskGroups) = 3

\* ------------------------------------------------------------------------
\* C5
\* ------------------------------------------------------------------------
\* the task of the caller's list has been dispatched: ExecuteTask was called for it
DispatchedInput(i) ==
    \E p \in Positions : TaskAt(p).ID = tasks[i].ID /\ CallAt(p) # "notcalled"
                                                   /\ CallAt(p) # "spawned"

\* C5: after ExecuteBatch returned, every dispatched task of the caller's list is in
\* state success or fail in that list, and one whose handler failed is in state fail
\* with a non-empty state message.
C5_CallerSeesFinalStates ==
    pc = "done" =>
        \A i \in DOMAIN tasks :
            DispatchedInput(i) =>
                /\ Terminal(tasks[i].State)
                /\ \A p \in Positions :
                      (TaskAt(p).ID = tasks[i].ID /\ HandlerRan(p) /\ ErrAt(p) # "")
                      => (tasks[i].State = TaskStateFail /\ tasks[i].StateMsg # "")

\* ------------------------------------------------------------------------
\* C6
\* ------------------------------------------------------------------------
\* C6: in sequential execution a failure aborts neither the group nor the batch:
\* once ExecuteBatch has returned, every sequentially executed group that was begun
\* has had ExecuteTask called and returned for each of its tasks, each task whose
\* handler ran is in state success or fail (fail with the handler's message exactly
\* when the handler failed); and when no group ran in parallel every group was
\* executed and ExecuteBatch returned nil.
C6_SerialContinuesAfterFailure ==
    pc = "done" =>
        /\ \A g \in DOMAIN taskGroups :
              (~RunsParallel(g) /\ \E i \in DOMAIN call[g] : call[g][i] # "notcalled")
              => \A i \in DOMAIN call[g] :
                    /\ call[g][i] = "returned"
                    /\ HandlerRan(<<g, i>>) =>
                          /\ Terminal(taskGroups[g][i].State)
                          /\ (execErr[g][i] # "") <=>
                                (/\ taskGroups[g][i].State = TaskStateFail
                                 /\ taskGroups[g][i].StateMsg = execErr[g][i])
        /\ (\A g \in DOMAIN taskGroups : ~RunsParallel(g))
              => /\ batchErr = ""
                 /\ \A p \in Positions : CallAt(p) = "returned"

\* three independent tasks run sequentially, the second one fails in its handler,
\* the first and the third succeed
C6_Witness ==
    /\ pc = "done"
    /\ ~parallel
    /\ Len(taskGroups) = 1
    /\ Len(taskGroups[1]) = 3
    /\ taskGroups[1][1].State = TaskStateSuccess
    /\ taskGroups[1][2].State = TaskStateFail
    /\ taskGroups[1][2].StateMsg # ""
    /\ taskGroups[1][3].State = TaskStateSuccess
    /\ batchErr = ""

\* ------------------------------------------------------------------------
\* C7
\* ------------------------------------------------------------------------
\* C7: a task of group k+1 has entered running (or gone beyond it) only if every
\* task of group k has reached success or fail.
C7_BarrierBetweenWaves ==
    \A p \in Positions :
        (p[1] > 1 /\ TaskAt(p).State # TaskStateWait)
        => \A j \in DOMAIN taskGroups[p[1] - 1] :
              Terminal(taskGroups[p[1] - 1][j].State)

\* ------------------------------------------------------------------------
\* C8
\* ------------------------------------------------------------------------
\* some task of the list names a task of the list as its predecessor
HasInternalPredecessor(ts) ==
    \E i \in DOMAIN ts : \E j \in DOMAIN ts :
        ts[i].Dependent # "" /\ ts[i].Dependent = ts[j].ID

\* some task of the list is of the delegate-spawn type
HasAgentGen(ts) == \E i \in DOMAIN ts : ts[i].Type = "agent_gen"

\* C8: CanParallelize(list) is false exactly when a task of the list has a
\* predecessor that is a task of the list or a task of the list has type agent_gen;
\* true otherwise, the empty list included. Checked on every input list and on
\* every group ExecuteBatch passes to it.
C8_CanParallelizeExact ==
    /\ pc = "idle" =>
          /\ CanParallelize(tasks) = ~(HasInternalPredecessor(tasks) \/ HasAgentGen(tasks))
          /\ CanParallelize(<<>>)
    /\ pc = "group" =>
          \A g \in DOMAIN taskGroups :
              CanParallelize(taskGroups[g]) =
                  ~(HasInternalPredecessor(taskGroups[g]) \/ HasAgentGen(taskGroups[g]))

\* a group of plain tasks next to a group with an agent_gen task, from an input
\* list that has an internal predecessor: the three cases of the claim
C8_Witness ==
    /\ pc = "group"
    /\ Len(taskGroups) = 2
    /\ HasInternalPredecessor(tasks) /\ ~CanParallelize(tasks)
    /\ ~HasAgentGen(taskGroups[1]) /\ CanParallelize(taskGroups[1])
    /\ HasAgentGen(taskGroups[2]) /\ ~HasInternalPredecessor(taskGroups[2])
    /\ ~CanParallelize(taskGroups[2])

\* ------------------------------------------------------------------------
\* C9
\* ------------------------------------------------------------------------
\* the tasks of group g are in state running
RunningIn(g) == {i \in DOMAIN taskGroups[g] : taskGroups[g][i].State = TaskStateRunning}

\* C9: executeParallel runs only groups for which parallel mode is enabled and
\* CanParallelize holds; and while a group runs with parallel mode disabled or with
\* an agent_gen task in it, at most one task is in state running and the tasks are
\* taken in list order (no task has left wait before all earlier tasks of the group
\* have been dispatched).
C9_SerialWhenNotParallelizable ==
    /\ pc = "parallel" => (parallel /\ CanParallelize(taskGroups[gi]))
    /\ \A g \in DOMAIN taskGroups :
          (~parallel \/ HasAgentGen(taskGroups[g])) =>
              /\ Cardinality(RunningIn(g)) <= 1
              /\ \A i \in DOMAIN taskGroups[g] : \A j \in DOMAIN taskGroups[g] :
                    (j < i /\ taskGroups[g][i].State # TaskStateWait)
                    => call[g][j] = "returned"

\* ------------------------------------------------------------------------
\* C10
\* ------------------------------------------------------------------------
\* a worker of a parallel group failed: its ExecuteTask returned an error
WorkerFailed == \E p \in Positions : RunsParallel(p[1]) /\ ErrAt(p) # ""

\* C10: when ExecuteBatch has returned, every group has been executed (a worker
\* failure halts nothing), and the return value is non-nil exactly when a worker
\* of a parallel group failed.
C10_ParallelFailureDoesNotHalt ==
    pc = "done" =>
        /\ \A p \in Positions : CallAt(p) = "returned"
        /\ (batchErr # "") <=> WorkerFailed

\* ------------------------------------------------------------------------
\* C11
\* ------------------------------------------------------------------------
\* the predecessor of task i is non-empty and names no task of the list
DanglingPredecessor(ts, i) == ts[i].Dependent \notin ({""} \cup IDsOf(ts))

\* C11: a task with a dangling predecessor is treated as satisfied: the resolver
\* puts it into the first group, and once ExecuteBatch has returned nil the task
\* has been dispatched.
C11_DanglingTreatedAsSatisfied ==
    \A i \in DOMAIN tasks :
        DanglingPredecessor(tasks, i) =>
            /\ pc \notin {"idle"} =>
                  \E p \in Positions : p[1] = 1 /\ TaskAt(p).ID = tasks[i].ID
            /\ (pc = "done" /\ batchErr = "") => DispatchedInput(i)

\* ------------------------------------------------------------------------
\* C12
\* ------------------------------------------------------------------------
\* following the predecessor of task i for at most fuel steps ends at a task without
\* predecessor: neither a cycle nor a dangling predecessor is met (ids distinct)
RECURSIVE Resolvable(_, _, _)
Resolvable(ts, i, fuel) ==
    IF ts[i].Dependent = "" THEN TRUE
    ELSE IF fuel = 0 \/ ts[i].Dependent \notin IDsOf(ts) THEN FALSE
    ELSE Resolvable(ts, IndexOfID(ts, ts[i].Dependent), fuel - 1)

\* number of predecessors above a resolvable task
RECURSIVE ChainDepth(_, _)
ChainDepth(ts, i) ==
    IF ts[i].Dependent = "" THEN 0
    ELSE 1 + ChainDepth(ts, IndexOfID(ts, ts[i].Dependent))

\* the tasks no pass of the resolver finds eligible
Residue == {i \in DOMAIN tasks : ~Resolvable(tasks, i, Len(tasks))}

\* the ids of a group, in the order of the group
GroupIDs(group) == [k \in DOMAIN group |-> group[k].ID]

\* the ids of the resolvable tasks of chain depth d, in list order
LevelIDs(d) ==
    GroupIDs(SelectSeq(tasks, LAMBDA task :
        LET i == IndexOfID(tasks, task.ID)
        IN  Resolvable(tasks, i, Len(tasks)) /\ ChainDepth(tasks, i) = d))

\* the residue is in no group, not dispatched, and in state wait
ResidueUntouched ==
    \A i \in DOMAIN tasks :
        (tasks[i].Dependent # "" /\ ~Resolvable(tasks, i, Len(tasks))) =>
            /\ tasks[i].State = TaskStateWait
            /\ WavesOfID(tasks[i].ID) = {}
            /\ ~DispatchedInput(i)

\* C12 as stated: whenever tasks remain that no pass finds eligible, they are in no
\* group, never dispatched, still in state wait, and ExecuteBatch returns nil.
C12_ResidueDroppedAndNil ==
    (pc = "done" /\ Residue # {}) => (ResidueUntouched /\ batchErr = "")

\* C12 amended: the resolver returns exactly the groups of the tasks whose
\* predecessor chain ends (group d+1 holds those of chain depth d, in list order);
\* the other tasks are in no group, so that no ExecuteTask call is ever made for
\* them, and they are undispatched and in state wait when ExecuteBatch returns; and
\* dropping them raises no error: ExecuteBatch returns nil unless a worker of a
\* parallel group failed.
C12_ResidueDropped ==
    /\ Resolved =>
          /\ \A g \in DOMAIN taskGroups : GroupIDs(taskGroups[g]) = LevelIDs(g - 1)
          /\ LevelIDs(Len(taskGroups)) = <<>>
    /\ (Resolved \/ pc = "done") => ResidueUntouched
    /\ pc = "done" => (batchErr # "" => WorkerFailed)

\* a batch of one plain task and a two-task cycle has returned nil with one group
C12_Witness ==
    /\ pc = "done"
    /\ Len(tasks) = 3
    /\ tasks[1].Dependent = "" /\ tasks[2].Dependent = "t3" /\ tasks[3].Dependent = "t2"
    /\ Residue = {2, 3}
    /\ Len(taskGroups) = 1 /\ Len(taskGroups[1]) = 1
    /\ CallAt(<<1, 1>>) = "returned"
    /\ batchErr = ""

\* ------------------------------------------------------------------------
\* C20
\* ------------------------------------------------------------------------
\* C20: a failed append of the started entry is not fatal: whenever ExecuteTask has
\* returned, the handler of the task has run, the return value is an outcome of the
\* handler, and the final state is success or fail according to that outcome.
C20_LedgerFailureNotFatal ==
    \A p \in Positions :
        CallAt(p) = "returned" =>
            /\ ErrAt(p) \in HandlerErrors(TaskAt(p).Type)
            /\ TaskAt(p).State = (IF ErrAt(p) = "" THEN TaskStateSuccess ELSE TaskStateFail)

\* ------------------------------------------------------------------------
\* C13
\* ------------------------------------------------------------------------
\* C13: analyzeTaskDependencies terminates on every task list, with cyclic,
\* self-referential or dangling predecessors and with duplicate ids, after at most
\* n+1 passes over n tasks: at most n+1 passes have been made in every state, every
\* pass but a last one adds an id to processed, the loop can always take its next
\* step, and what is returned are the groups of analyzeTaskDependencies.
C13_ResolverTerminates ==
    /\ rPasses <= Len(rTasks) + 1
    /\ rpc = "loop" => (ENABLED ResolverPass /\ Cardinality(rProcessed) >= rPasses)
    /\ rpc = "returned" => rGroups = analyzeTaskDependencies(rTasks)

\* the resolver has returned from a list of three tasks, two of them with the same
\* id and one depending on itself, after a last pass that found no eligible task
C13_Witness ==
    /\ rpc = "returned"
    /\ Len(rTasks) = 3
    /\ \E i, j \in DOMAIN rTasks : i # j /\ rTasks[i].ID = rTasks[j].ID
    /\ \E i \in DOMAIN rTasks : rTasks[i].Dependent = rTasks[i].ID
    /\ Cardinality(rProcessed) < Len(rTasks)
    /\ rPasses = Len(rGroups) + 1

\* ------------------------------------------------------------------------
\* C19
\* ------------------------------------------------------------------------
\* C19: once the context is cancelled, no task that is in state wait enters running:
\* every task in state wait stays in state wait in every later step.
C19_CancelStopsDispatch ==
    [][ctxDone =>
          \A p \in Positions :
              taskGroups[p[1]][p[2]].State = TaskStateWait =>
                  taskGroups'[p[1]][p[2]].State = TaskStateWait]_vars

\* ------------------------------------------------------------------------
\* C17
\* ------------------------------------------------------------------------
\* the positions of the input whose description is non-empty and occurs at no
\* earlier position
FirstOccurrences(ts) ==
    {i \in DOMAIN ts :
        /\ ts[i].Description # ""
        /\ \A j \in 1..(i - 1) : ts[j].Description # ts[i].Description}

\* the descriptions of a list, in the order of the list
DescriptionsOf(ts) == [k \in DOMAIN ts |-> ts[k].Description]

\* the input tasks at the first occurrences, in input order
KeptInput(ts) == SelectSeq([i \in DOMAIN ts |-> [pos |-> i, task |-> ts[i]]],
                           LAMBDA e : e.pos \in FirstOccurrences(ts))

\* C17: OptimizePlan returns exactly the input tasks with a non-empty description,
\* only the first occurrence of each description, in input order: output k is the
\* k-th first occurrence of the input (same description, process and dependent, and
\* the id, state and type of the input where the input had them); so no output has
\* an empty description and no two outputs have the same description.
C17_OptimizerDedup ==
    opc >= 1 =>
        LET kept == KeptInput(optInput)
        IN  /\ Len(optOnce) = Len(kept)
            /\ \A k \in DOMAIN optOnce :
                  /\ optOnce[k].Description = kept[k].task.Description
                  /\ optOnce[k].Process = kept[k].task.Process
                  /\ optOnce[k].Dependent = kept[k].task.Dependent
                  /\ kept[k].task.ID # "" => optOnce[k].ID = kept[k].task.ID
                  /\ kept[k].task.State # "" => optOnce[k].State = kept[k].task.State
                  /\ kept[k].task.Type # "" => optOnce[k].Type = kept[k].task.Type
                  /\ optOnce[k].Description # ""
            /\ \A k, l \in DOMAIN optOnce :
                  k # l => optOnce[k].Description # optOnce[l].Description

\* OptimizePlan has dropped an empty description and a later duplicate and kept
\* two tasks, the first occurrence before the other description
C17_Witness ==
    /\ opc >= 1
    /\ Len(optInput) = 3
    /\ \E i \in DOMAIN optInput : optInput[i].Description = ""
    /\ \E i, j \in DOMAIN optInput :
          i < j /\ optInput[i].Description = optInput[j].Description
               /\ optInput[i].Description # ""
    /\ Len(optOnce) = 1

\* ------------------------------------------------------------------------
\* C18
\* ------------------------------------------------------------------------
\* a task without its two time stamps
Unstamped(task) ==
    [ID |-> task.ID, Description |-> task.Description, Process |-> task.Process,
     Type |-> task.Type, Dependent |-> task.Dependent, State |-> task.State]

UnstampedList(ts) == [k \in DOMAIN ts |-> Unstamped(ts[k])]

\* C18 as stated: OptimizePlan(OptimizePlan(tasks)) equals OptimizePlan(tasks).
C18_OptimizerIdempotentEqual ==
    opc = 2 => optTwice = optOnce

\* C18 amended: the second application drops no task and changes no id, state, type
\* or other field but CreatedAt and UpdatedAt, which it stamps again.
C18_OptimizerIdempotent ==
    opc = 2 =>
        /\ Len(optTwice) = Len(optOnce)
        /\ UnstampedList(optTwice) = UnstampedList(optOnce)
        /\ \A k \in DOMAIN optTwice :
              optTwice[k].CreatedAt = clock /\ optTwice[k].UpdatedAt = clock

\* the second application has run, at a later reading of the clock, on a list in
\* which the first application had assigned an id, a state and an inferred type
C18_Witness ==
    /\ opc = 2
    /\ Len(optOnce) = 2
    /\ \E i \in DOMAIN optInput :
          /\ optInput[i].ID = "" /\ optInput[i].State = "" /\ optInput[i].Type = ""
          /\ optInput[i].Description # ""
    /\ \E k \in DOMAIN optOnce : optOnce[k].Type = SubTaskTypeFunction
    /\ optTwice[1].CreatedAt > optOnce[1].CreatedAt

\* ------------------------------------------------------------------------
\* C14
\* ------------------------------------------------------------------------
\* C14: with a planning budget of length L, successive Plan calls run at the
\* depths 0, 1, ...: the call made after k earlier calls runs at depth k (the depth
\* of the started entry it appends), and the call at depth L returns the
\* depth-exceeded error without calling the Oracle and without appending a ledger
\* entry.
C14_DepthBound ==
    [][(planner = "TaskPlanner" /\ planCalls' = planCalls + 1) =>
          /\ Len(ledger') > Len(ledger) => ledger'[Len(ledger) + 1].depth = planCalls
          /\ planCalls = Len(maxSteps) =>
                /\ planErr' = "max planning depth reached"
                /\ oracleCalls' = oracleCalls
                /\ ledger' = ledger]_vars

\* ------------------------------------------------------------------------
\* C15
\* ------------------------------------------------------------------------
\* C15: when the Oracle call of the last Plan call succeeded, Plan returned no
\* error, and when the Oracle's text held no decodable proposal, Plan returned the
\* fallback plan, a non-empty list of tasks.
C15_FallbackOnUndecodable ==
    /\ response.kind \in {"no_json", "bad_json", "proposal"} => planErr = ""
    /\ response \in Undecodable => Len(planTasks) > 0

\* ------------------------------------------------------------------------
\* C16
\* ------------------------------------------------------------------------
\* the last Plan call of the TaskPlanner succeeded on a proposal of two tasks with
\* different descriptions in which the second names the first as its predecessor
TwoTaskChainPlanned ==
    /\ planner = "TaskPlanner"
    /\ planErr = ""
    /\ response.kind = "proposal"
    /\ Len(response.tasks) = 2
    /\ response.tasks[1].Description # ""
    /\ response.tasks[2].Description # ""
    /\ response.tasks[1].Description # response.tasks[2].Description
    /\ response.tasks[1].Dependent = ""
    /\ response.tasks[2].Dependent = OracleRef(1)

\* C16: for a plan made from a proposal in which task B names task A as its
\* predecessor, B's predecessor is the id Plan assigned to A, and the resolver
\* returns the two groups [A] and [B].
C16_PlannedPredecessorResolves ==
    TwoTaskChainPlanned =>
        /\ Len(planTasks) = 2
        /\ planTasks[2].Dependent = planTasks[1].ID
        /\ analyzeTaskDependencies(planTasks) = <<<<planTasks[1]>>, <<planTasks[2]>>>>

\* ------------------------------------------------------------------------
\* TaskPlanner.NeedsPlan on its own.  A message is a sequence of pieces of
\* text; no keyword lies across two pieces, so a keyword occurs in the message
\* exactly when it occurs as one of its pieces, and the message starts with a
\* keyword exactly when its first piece is that keyword.
\* ------------------------------------------------------------------------
MaxPieces == 3

complexKeywords ==
    {"analyze", "compare", "generate", "create", "build", "research",
     "investigate", "multiple", "steps", "first", "then", "finally", "process"}

simpleKeywords ==
    {"what is", "who is", "when", "where", "define", "tell me", "show me", "list"}

\* a text of 101 characters in which no keyword occurs
LongText ==
    "xxxxxxxxxxxxxxxxxxxxxxxxxxxxxxxxxxxxxxxxxxxxxxxxxxxxxxxxxxxxxxxxxxxxxxxxxxxxxxxxxxxxxxxxxxxxxxxxxxxxx"

\* the messages of up to MaxPieces pieces
NeedsPlanMessages ==
    LET pieces == {"What is", "Define", "Analyze", "then", "List", "the capital",
                   LongText}
    IN  UNION {[1..n -> pieces] : n \in 0..MaxPieces}

\* strings.ToLower(message)
LowerMessage(message) == [k \in DOMAIN message |-> ToLower(message[k])]

\* strings.Contains(message, keyword)
Contains(message, keyword) == \E k \in DOMAIN message : message[k] = keyword

\* strings.HasPrefix(message, keyword)
HasPrefix(message, keyword) == Len(message) > 0 /\ message[1] = keyword

\* len(message): the pieces are separated by one space
RECURSIVE MessageLen(_)
MessageLen(message) ==
    IF message = <<>> THEN 0
    ELSE IF Len(message) = 1 THEN Len(message[1])
    ELSE Len(message[1]) + 1 + MessageLen(Tail(message))

NeedsPlan(message) ==
    LET lower == LowerMessage(message)
    IN  IF \E keyword \in complexKeywords : Contains(lower, keyword) THEN TRUE
        ELSE IF \E keyword \in simpleKeywords : HasPrefix(lower, keyword) THEN FALSE
        ELSE TRUE

NeedsPlanInit ==
    /\ ExecutorIdle
    /\ ResolverIdle
    /\ PlannerIdle
    /\ OptimizerIdle
    /\ MessageManagerIdle
    /\ ExecuteTaskIdle
    /\ SharedContextIdle
    /\ DynAgentIdle
    /\ \E message \in NeedsPlanMessages :
           needsPlan = [message |-> message, called |-> FALSE, result |-> FALSE]

NeedsPlanCall ==
    /\ ~needsPlan.called
    /\ needsPlan' = [needsPlan EXCEPT !.called = TRUE,
                                      !.result = NeedsPlan(needsPlan.message)]
    /\ UNCHANGED <<executorVars, ctxDone, resolverVars, plannerVars, clock,
                   optimizerVars, messageManager, executeTask, sharedContext,
                   dynAgent>>

SpecNeedsPlan == NeedsPlanInit /\ [][NeedsPlanCall]_vars

\* ------------------------------------------------------------------------
\* C21
\* ------------------------------------------------------------------------
\* the length above which a message counts as long
LengthThreshold == 100

HasComplexKeyword(message) ==
    \E keyword \in complexKeywords : Contains(LowerMessage(message), keyword)

HasSimplePrefix(message) ==
    \E keyword \in simpleKeywords : HasPrefix(LowerMessage(message), keyword)

ExceedsThreshold(message) == MessageLen(message) > LengthThreshold

\* C21: NeedsPlan(message) is true whenever the message contains a multi-step
\* keyword or exceeds the length threshold, even when it starts with a
\* simple-query prefix; it is false when neither holds and the message starts
\* with a simple-query prefix; and it is true when no signal is present.
C21_NeedsPlanGate ==
    needsPlan.called =>
        LET message == needsPlan.message
            signal == HasComplexKeyword(message) \/ ExceedsThreshold(message)
        IN  /\ signal => needsPlan.result
            /\ (~signal /\ HasSimplePrefix(message)) => ~needsPlan.result
            /\ (~signal /\ ~HasSimplePrefix(message)) => needsPlan.result

\* ------------------------------------------------------------------------
\* MessageManager on its own: AddMessage calls on a manager created with
\* maxMessages.  The field added is the list of every message handed to
\* AddMessage so far; the code does not keep it.
\* ------------------------------------------------------------------------
MaxLimit == 2
MaxAdds == 4

Roles == {"system", "user", "assistant"}

IsSystem(msg) == msg.Role = "system"

\* the last count elements of list
LastOf(list, count) == SubSeq(list, Len(list) - count + 1, Len(list))

\* the variant of trimMessages that drops nothing
trimMessagesKeepingAll(messages, maxMessages) == messages

trimMessages(messages, maxMessages) ==
    LET systemMessages == SelectSeq(messages, IsSystem)
        otherMessages == SelectSeq(messages, LAMBDA msg : ~IsSystem(msg))
        keepCount == IF maxMessages - Len(systemMessages) < 0 THEN 0
                     ELSE maxMessages - Len(systemMessages)
        kept == IF Len(otherMessages) > keepCount
                THEN LastOf(otherMessages, keepCount)
                ELSE otherMessages
    IN  systemMessages \o kept

GetHistory == messageManager.messages

MessageManagerInit ==
    /\ ExecutorIdle
    /\ ResolverIdle
    /\ PlannerIdle
    /\ OptimizerIdle
    /\ NeedsPlanIdle
    /\ ExecuteTaskIdle
    /\ SharedContextIdle
    /\ DynAgentIdle
    /\ \E maxMessages \in 0..MaxLimit :
           messageManager = [maxMessages |-> maxMessages, messages |-> <<>>,
                             added |-> <<>>]

AddMessage ==
    /\ Len(messageManager.added) < MaxAdds
    /\ \E role \in Roles :
           LET message == [Role |-> role, Content |-> Len(messageManager.added) + 1]
               appended == Append(messageManager.messages, message)
               maxMessages == messageManager.maxMessages
           IN  messageManager' =
                   [messageManager EXCEPT
                       !.messages = IF maxMessages > 0 /\ Len(appended) > maxMessages
                                    THEN trimMessages(appended, maxMessages)
                                    ELSE appended,
                       !.added = Append(@, message)]
    /\ UNCHANGED <<executorVars, ctxDone, resolverVars, plannerVars, clock,
                   optimizerVars, needsPlan, executeTask, sharedContext, dynAgent>>

SpecMessageManager == MessageManagerInit /\ [][AddMessage]_vars

\* ------------------------------------------------------------------------
\* C22
\* ------------------------------------------------------------------------
\* C22 as stated: for a MessageManager created with maxMessages = M > 0, after
\* any sequence of AddMessage calls GetHistory never returns more than M
\* messages.
C22_HistoryAtMostMax ==
    messageManager.maxMessages > 0 => Len(GetHistory) <= messageManager.maxMessages

\* C22, amended: for M > 0 the history holds every system message added so far,
\* in the order added, and the most recent non-system messages, as many as M
\* less the number of system messages leaves room for (none when there are M or
\* more system messages); so it has at most max(M, number of system messages)
\* messages, and at most M as long as no more than M system messages were added.
C22_HistoryBound ==
    messageManager.maxMessages > 0 =>
        LET M == messageManager.maxMessages
            systemAdded == SelectSeq(messageManager.added, IsSystem)
            otherAdded == SelectSeq(messageManager.added, LAMBDA msg : ~IsSystem(msg))
            room == IF M - Len(systemAdded) < 0 THEN 0 ELSE M - Len(systemAdded)
            keep == IF Len(otherAdded) > room THEN room ELSE Len(otherAdded)
        IN  /\ SelectSeq(GetHistory, IsSystem) = systemAdded
            /\ SelectSeq(GetHistory, LAMBDA msg : ~IsSystem(msg)) = LastOf(otherAdded, keep)
            /\ Len(GetHistory) <= (IF Len(systemAdded) > M THEN Len(systemAdded) ELSE M)
            /\ Len(systemAdded) <= M => Len(GetHistory) <= M

\* messages were dropped from a bounded history in which a system message and
\* a later message of another role are left
C22_Witness ==
    /\ messageManager.maxMessages > 0
    /\ Len(GetHistory) < Len(messageManager.added)
    /\ Len(GetHistory) = messageManager.maxMessages
    /\ \E k \in DOMAIN GetHistory : IsSystem(GetHistory[k])
    /\ \E k \in DOMAIN GetHistory : ~IsSystem(GetHistory[k])

\* ------------------------------------------------------------------------
\* ExecuteTask called by the caller itself, any number of times on the same
\* task, with the ledger it writes.  An entry of the ledger carries the number
\* of the call that wrote it (call), which the code does not record.
\* ------------------------------------------------------------------------
MaxCalls == 2

AllTaskTypes ==
    {SubTaskTypeTask, SubTaskTypeFunction, SubTaskTypeAgentCall, SubTaskTypeAgentGen}

\* the entries ExecuteTask hands to recordManager.Record
SubtaskStarted(parent, n) ==
    [type |-> "subtask_execution", parent_id |-> parent, status |-> "started", call |-> n]

ErrorRecord(parent, error, n) ==
    [type |-> "error", parent_id |-> parent, status |-> error, call |-> n]

SubtaskCompletion(parent, state, n) ==
    [type |-> "subtask_execution", parent_id |-> parent, status |-> state, call |-> n]

\* recordManager.Record(entry): the entry is appended, or Record fails and the
\* ledger is left as it was
Record(led, entry, ok) == IF ok THEN Append(led, entry) ELSE led

DirectInit ==
    /\ ExecutorIdle
    /\ ResolverIdle
    /\ PlannerIdle
    /\ OptimizerIdle
    /\ NeedsPlanIdle
    /\ MessageManagerIdle
    /\ SharedContextIdle
    /\ DynAgentIdle
    /\ \E type \in AllTaskTypes :
           executeTask = [pc |-> "idle", Type |-> type, State |-> TaskStateWait,
                          calls |-> 0, ledger |-> <<>>, recordID |-> "",
                          execErr |-> "", err |-> ""]

DirectFrame ==
    UNCHANGED <<executorVars, ctxDone, resolverVars, plannerVars, clock,
                optimizerVars, needsPlan, messageManager, sharedContext, dynAgent>>

\* ExecuteTask is entered: task.State = models.TaskStateRunning
DirectEnter ==
    /\ executeTask.pc \in {"idle", "returned"}
    /\ executeTask.calls < MaxCalls
    /\ executeTask' = [executeTask EXCEPT !.pc = "record_start",
                                          !.State = TaskStateRunning,
                                          !.calls = @ + 1,
                                          !.recordID = "", !.execErr = "", !.err = ""]
    /\ DirectFrame

\* Record of the "started" entry returns; on an error ExecuteTask returns it
DirectRecordStart ==
    /\ executeTask.pc = "record_start"
    /\ \E ok \in BOOLEAN :
          IF ok
          THEN executeTask' =
                   [executeTask EXCEPT
                       !.pc = "handler",
                       !.recordID = RecordID(executeTask.ledger),
                       !.ledger = Append(@, SubtaskStarted(ParentRecordID,
                                                           executeTask.calls))]
          ELSE executeTask' = [executeTask EXCEPT !.pc = "returned",
                                                  !.err = "failed to record task start"]
    /\ DirectFrame

\* the handler of the task type runs and returns execErr
DirectHandler ==
    /\ executeTask.pc = "handler"
    /\ \E e \in HandlerErrors(executeTask.Type) :
          executeTask' = [executeTask EXCEPT !.pc = "update", !.execErr = e]
    /\ DirectFrame

\* the task state is set from execErr and, on an error, the error entry is recorded
DirectUpdate ==
    /\ executeTask.pc = "update"
    /\ \E ok \in BOOLEAN :
          IF executeTask.execErr # ""
          THEN executeTask' =
                   [executeTask EXCEPT
                       !.pc = "record_completion",
                       !.State = TaskStateFail,
                       !.ledger = Record(@, ErrorRecord(executeTask.recordID,
                                             executeTask.execErr, executeTask.calls), ok)]
          ELSE executeTask' = [executeTask EXCEPT !.pc = "record_completion",
                                                  !.State = TaskStateSuccess]
    /\ DirectFrame

\* the completion entry is recorded and ExecuteTask returns execErr
DirectRecordCompletion ==
    /\ executeTask.pc = "record_completion"
    /\ \E ok \in BOOLEAN :
          executeTask' =
              [executeTask EXCEPT
                  !.pc = "returned",
                  !.err = executeTask.execErr,
                  !.ledger = Record(@, SubtaskCompletion(executeTask.recordID,
                                        executeTask.State, executeTask.calls), ok)]
    /\ DirectFrame

DirectNext ==
    \/ DirectEnter
    \/ DirectRecordStart
    \/ DirectHandler
    \/ DirectUpdate
    \/ DirectRecordCompletion

SpecDirect == DirectInit /\ [][DirectNext]_vars

\* ------------------------------------------------------------------------
\* C23
\* ------------------------------------------------------------------------
StateMoves ==
    {<<TaskStateWait, TaskStateRunning>>, <<TaskStateRunning, TaskStateSuccess>>,
     <<TaskStateRunning, TaskStateFail>>}

\* C23: a task's state only ever moves wait -> running -> {success, fail}: under
\* any sequence of ExecuteTask calls the task is dispatched at most once (a call
\* enters only on a task in state wait), never leaves success or fail, and never
\* goes back from running to wait.
C23_StateMachine ==
    [][ /\ executeTask'.State # executeTask.State =>
               <<executeTask.State, executeTask'.State>> \in StateMoves
        /\ executeTask'.calls # executeTask.calls => executeTask.State = TaskStateWait
      ]_vars

\* ------------------------------------------------------------------------
\* C24
\* ------------------------------------------------------------------------
\* the entries the ledger received from call n, in the order received
EntriesOfCall(n) ==
    LET OfCall(entry) == entry.call = n
    IN  SelectSeq(executeTask.ledger, OfCall)

\* the entries the claim describes for a returned call
ExpectedEntries(n) ==
    <<SubtaskStarted(ParentRecordID, n)>>
    \o (IF executeTask.execErr # ""
        THEN <<ErrorRecord(executeTask.recordID, executeTask.execErr, n)>>
        ELSE <<>>)
    \o <<SubtaskCompletion(executeTask.recordID, executeTask.State, n)>>

\* C24: for every ExecuteTask call the ledger receives, in this order: a subtask
\* entry with status=started parented to the caller's ledger id, appended before
\* the handler is invoked; then, only if the handler failed, one error entry;
\* then exactly one completion entry whose status equals the task's final state.
C24_LedgerOrder ==
    /\ executeTask.pc = "handler" =>
           EntriesOfCall(executeTask.calls)
               = <<SubtaskStarted(ParentRecordID, executeTask.calls)>>
    /\ executeTask.pc = "returned" =>
           /\ executeTask.State \in {TaskStateSuccess, TaskStateFail}
           /\ EntriesOfCall(executeTask.calls) = ExpectedEntries(executeTask.calls)

\* ------------------------------------------------------------------------
\* C25
\* ------------------------------------------------------------------------
\* C25: every successful Plan appends exactly two planning ledger entries, one
\* with status=started (before the Oracle is called) and one with
\* status=completed (after the plan has been optimized), and both entries carry
\* the caller-supplied parent ledger id.
C25_TwoPlanningEntries ==
    [][(planCalls' = planCalls + 1 /\ planErr' = "") =>
          /\ Len(ledger') = Len(ledger) + 2
          /\ SubSeq(ledger', 1, Len(ledger)) = ledger
          /\ LET started == ledger'[Len(ledger) + 1]
                 completed == ledger'[Len(ledger) + 2]
             IN  /\ started.type = "planning" /\ completed.type = "planning"
                 /\ started.status = "started"
                 /\ completed.status = "completed"
                 /\ started.parent_id = ParentRecordID
                 /\ completed.parent_id = ParentRecordID]_vars

\* ------------------------------------------------------------------------
\* One wave of tasks executed under the caller's ExecutionContext.  A Go slice
\* is a header (len, cap) over a backing array: AgentChain and Messages are the
\* headers of the caller's context, chainArray and messageArray the arrays they
\* point to (cap slots, the slots after len being spare capacity).  The fields
\* chainBefore and messagesBefore keep what the caller saw when the wave began.
\* Every task of the wave is of type task or agent_gen; the worker limit is not
\* below the size of the wave.
\* ------------------------------------------------------------------------
MaxWave == 2
MaxHistory == 1
MaxSpare == 1

\* the elements a slice header shows of its array
Visible(array, slice) == SubSeq(array, 1, slice.len)

HasSpare(slice) == slice.len < slice.cap

\* the backing array of slice after append(slice, x): the element is written
\* into the first spare slot; without spare capacity append allocates a new
\* array and leaves this one alone
ArrayAfterAppend(array, slice, x) ==
    IF HasSpare(slice) THEN [array EXCEPT ![slice.len + 1] = x] ELSE array

\* task.Name and the prompt built from it
TaskName(w) == "task" \o ToString(w)

Prompt(w) == "prompt of " \o TaskName(w)

\* newAgentChain assigned to the shared original instead of the copy (followed
\* where the chain has spare capacity, so that the array is the same)
CallerChainAfterSpawnShared(chain) ==
    IF HasSpare(chain) THEN [chain EXCEPT !.len = @ + 1] ELSE chain

\* the caller's AgentChain header after executeAgentGenTask: newAgentChain is
\* assigned to newContext, a copy of *execContext
CallerChainAfterSpawn(chain) == chain

\* the wave runs in executeParallel
WaveParallel ==
    /\ sharedContext.parallel
    /\ \A w \in DOMAIN sharedContext.workers :
           sharedContext.workers[w].Type # SubTaskTypeAgentGen

\* worker w may take a step: in a serial wave the tasks before it have returned
MayStep(w) ==
    WaveParallel \/ \A v \in 1..(w - 1) : sharedContext.workers[v].pc = "called"

SharedInit ==
    /\ ExecutorIdle
    /\ ResolverIdle
    /\ PlannerIdle
    /\ OptimizerIdle
    /\ NeedsPlanIdle
    /\ MessageManagerIdle
    /\ ExecuteTaskIdle
    /\ DynAgentIdle
    /\ \E n \in 1..MaxWave, par \in BOOLEAN, history \in 0..MaxHistory,
          chainSpare \in 0..MaxSpare, spare \in 0..MaxSpare :
          \E types \in [1..n -> TaskTypes] :
             LET chain == <<"agent">>
                 messages == [k \in 1..history |-> "history " \o ToString(k)]
             IN  sharedContext =
                     [parallel |-> par,
                      AgentChain |-> [len |-> 1, cap |-> 1 + chainSpare],
                      chainArray |-> chain \o [k \in 1..chainSpare |-> ""],
                      Messages |-> [len |-> history, cap |-> history + spare],
                      messageArray |-> messages \o [k \in 1..spare |-> ""],
                      chainBefore |-> chain,
                      messagesBefore |-> messages,
                      workers |-> [w \in 1..n |->
                                      [Type |-> types[w], pc |-> "entered",
                                       shared |-> FALSE, own |-> <<>>,
                                       sent |-> <<>>]]]

SharedFrame ==
    UNCHANGED <<executorVars, ctxDone, resolverVars, plannerVars, clock,
                optimizerVars, needsPlan, messageManager, executeTask, dynAgent>>

\* executeAgentGenTask: newAgentChain := append(execContext.AgentChain, task.Name);
\* newContext := *execContext; newContext.AgentChain = newAgentChain
SpawnContext(w) ==
    /\ sharedContext.workers[w].Type = SubTaskTypeAgentGen
    /\ sharedContext.workers[w].pc = "entered"
    /\ MayStep(w)
    /\ sharedContext' =
           [sharedContext EXCEPT
               !.chainArray = ArrayAfterAppend(@, sharedContext.AgentChain, TaskName(w)),
               !.AgentChain = CallerChainAfterSpawn(@),
               !.workers[w].pc = "spawned"]
    /\ SharedFrame

\* executeNormalTask: messages := append(execContext.Messages, prompt)
AppendPrompt(w) ==
    /\ \/ sharedContext.workers[w].Type = SubTaskTypeTask
          /\ sharedContext.workers[w].pc = "entered"
       \/ sharedContext.workers[w].pc = "spawned"
    /\ MayStep(w)
    /\ sharedContext' =
           [sharedContext EXCEPT
               !.messageArray = ArrayAfterAppend(@, sharedContext.Messages, Prompt(w)),
               !.workers[w].pc = "appended",
               !.workers[w].shared = HasSpare(sharedContext.Messages),
               !.workers[w].own =
                   IF HasSpare(sharedContext.Messages) THEN <<>>
                   ELSE Append(Visible(sharedContext.messageArray,
                                       sharedContext.Messages), Prompt(w))]
    /\ SharedFrame

\* the slice messages of worker w as it reads now
MessagesOf(w) ==
    IF sharedContext.workers[w].shared
    THEN SubSeq(sharedContext.messageArray, 1, sharedContext.Messages.len + 1)
    ELSE sharedContext.workers[w].own

\* executeNormalTask: e.llmProvider.Call(ctx, messages, ...)
CallOracle(w) ==
    /\ sharedContext.workers[w].pc = "appended"
    /\ MayStep(w)
    /\ sharedContext' = [sharedContext EXCEPT !.workers[w].pc = "called",
                                              !.workers[w].sent = MessagesOf(w)]
    /\ SharedFrame

SharedNext ==
    \/ \E w \in DOMAIN sharedContext.workers : SpawnContext(w)
    \/ \E w \in DOMAIN sharedContext.workers : AppendPrompt(w)
    \/ \E w \in DOMAIN sharedContext.workers : CallOracle(w)

SpecShared == SharedInit /\ [][SharedNext]_vars

\* ------------------------------------------------------------------------
\* C26
\* ------------------------------------------------------------------------
\* the delegation chain and the history the caller sees in its context
CallerChain == Visible(sharedContext.chainArray, sharedContext.AgentChain)

CallerMessages == Visible(sharedContext.messageArray, sharedContext.Messages)

\* C26: ExecuteTask and ExecuteBatch never modify the caller's Execution Context:
\* at every point of a wave, and so after a delegate-spawn task has been
\* executed, the caller's delegation chain is what it was before (the task name
\* is appended only for the per-call copy of the context), and the caller's
\* conversation history is what it was before as well.
C26_CallerContextUnchanged ==
    /\ CallerChain = sharedContext.chainBefore
    /\ CallerMessages = sharedContext.messagesBefore

\* a delegate-spawn task has been executed to the end on a context whose chain
\* and history both had spare capacity, so that both appends wrote into the
\* arrays the caller's slices point to
C26_Witness ==
    \E w \in DOMAIN sharedContext.workers :
        /\ sharedContext.workers[w].Type = SubTaskTypeAgentGen
        /\ sharedContext.workers[w].pc = "called"
        /\ HasSpare(sharedContext.AgentChain)
        /\ sharedContext.chainArray[sharedContext.AgentChain.len + 1] = TaskName(w)
        /\ sharedContext.workers[w].shared

\* ------------------------------------------------------------------------
\* C28
\* ------------------------------------------------------------------------
\* C28: in a parallel wave, the message list each worker passes to the Oracle is
\* the shared conversation history followed by that worker's own task prompt,
\* under every interleaving and whatever spare capacity the shared history slice
\* has.
C28_OwnPromptSent ==
    WaveParallel =>
        \A w \in DOMAIN sharedContext.workers :
            sharedContext.workers[w].pc = "called" =>
                sharedContext.workers[w].sent
                    = Append(sharedContext.messagesBefore, Prompt(w))

\* ------------------------------------------------------------------------
\* The executor with every worker limit NewTaskExecutor accepts: the value of
\* config.CustomConfig["max_workers"] is taken as it is, 0 included
\* ------------------------------------------------------------------------
InitAnyLimit == ExecutorInit(WorkerLimits \cup {0})

SpecAnyLimit == InitAnyLimit /\ [][Next]_vars

\* ------------------------------------------------------------------------
\* C27
\* ------------------------------------------------------------------------
\* C27: a parallel wave always completes: for every configured worker limit
\* (including 0) and every wave size, no worker blocks forever on the semaphore
\* or on the error channel, and once every task handler has returned
\* executeParallel returns; that is, while executeParallel is running some
\* worker, the closing goroutine or the collecting loop can take a step.
C27_WaveCompletes == pc = "parallel" => ENABLED Next

\* ------------------------------------------------------------------------
\* C29
\* ------------------------------------------------------------------------
\* C29: for any task list with unique ids, every wave returned by the resolver is
\* non-empty, the waves are pairwise disjoint (no id occurs twice), and no task
\* shares a wave with its own predecessor; so on resolver output the predecessor
\* check of CanParallelize never fails, and CanParallelize is false exactly for
\* the waves that hold a delegate-spawn task.
C29_WavesWellFormed ==
    Resolved =>
        /\ \A g \in DOMAIN taskGroups : Len(taskGroups[g]) > 0
        /\ \A p, q \in Positions : p # q => TaskAt(p).ID # TaskAt(q).ID
        /\ \A g \in DOMAIN taskGroups :
               /\ \A i, j \in DOMAIN taskGroups[g] :
                      taskGroups[g][i].Dependent # taskGroups[g][j].ID
               /\ CanParallelizeNoTypeCheck(taskGroups[g])
               /\ CanParallelize(taskGroups[g])
                      <=> \A i \in DOMAIN taskGroups[g] :
                              taskGroups[g][i].Type # SubTaskTypeAgentGen

\* the resolver returned a first wave of two tasks and a second wave with a task
\* whose predecessor is in the first
C29_Witness ==
    /\ Resolved
    /\ Len(taskGroups) = 2
    /\ Len(taskGroups[1]) = 2
    /\ taskGroups[2][1].Dependent = taskGroups[1][1].ID

\* ------------------------------------------------------------------------
\* DynAgent.ProcessMessage, one request after the other.  The planner, the
\* executor and the result processor are taken by their outcomes; records is
\* the list of the entries the agent itself hands to its record manager.
\* ------------------------------------------------------------------------
MaxRequests == 2

AgentStateIdle == "idle"
AgentStatePlanning == "planning"
AgentStateExecuting == "executing"
AgentStateCompleted == "completed"
AgentStateError == "error"

AgentInit ==
    /\ ExecutorIdle
    /\ ResolverIdle
    /\ PlannerIdle
    /\ OptimizerIdle
    /\ NeedsPlanIdle
    /\ MessageManagerIdle
    /\ ExecuteTaskIdle
    /\ SharedContextIdle
    /\ dynAgent = [pc |-> "idle", state |-> AgentStateIdle, requests |-> 0,
                   returned |-> "none", err |-> "", records |-> <<>>]

AgentFrame ==
    UNCHANGED <<executorVars, ctxDone, resolverVars, plannerVars, clock,
                optimizerVars, needsPlan, messageManager, executeTask, sharedContext>>

\* return nil, fmt.Errorf(...): the state is left as it is
ReturnError(agent, err) ==
    [agent EXCEPT !.pc = "returned", !.returned = "error", !.err = err]

\* a.recordError(executionRecordID, phase, err); the result of Record is ignored
recordError(agent, phase, ok) ==
    [agent EXCEPT !.records = Record(@, "error in " \o phase, ok)]

\* ProcessMessage is entered: a.state = AgentStatePlanning
ProcessMessage ==
    /\ dynAgent.pc \in {"idle", "returned"}
    /\ dynAgent.requests < MaxRequests
    /\ dynAgent' = [dynAgent EXCEPT !.pc = "record_start",
                                    !.state = AgentStatePlanning,
                                    !.requests = @ + 1,
                                    !.returned = "none", !.err = ""]
    /\ AgentFrame

\* Record of the execution start; AddMessage, which always returns nil
AgentRecordStart ==
    /\ dynAgent.pc = "record_start"
    /\ \E ok \in BOOLEAN :
          dynAgent' = IF ok
                      THEN [dynAgent EXCEPT !.pc = "planning",
                                            !.records = Append(@, "started")]
                      ELSE ReturnError(dynAgent, "failed to record execution start")
    /\ AgentFrame

\* planning phase: NeedsPlan is false and the direct_response task is built
AgentDirectResponse ==
    /\ dynAgent.pc = "planning"
    /\ dynAgent' = [dynAgent EXCEPT !.pc = "executing",
                                    !.state = AgentStateExecuting]
    /\ AgentFrame

\* planning phase: NeedsPlan is true and Plan fails
AgentPlanFails ==
    /\ dynAgent.pc = "planning"
    /\ \E ok \in BOOLEAN :
          dynAgent' = ReturnError(recordError(dynAgent, "planning", ok),
                                  "planning failed")
    /\ AgentFrame

\* planning phase: NeedsPlan is true, Plan succeeds and its result is recorded
AgentPlanSucceeds ==
    /\ dynAgent.pc = "planning"
    /\ \E ok \in BOOLEAN :
          dynAgent' = IF ok
                      THEN [dynAgent EXCEPT !.pc = "executing",
                                            !.state = AgentStateExecuting,
                                            !.records = Append(@, "planning")]
                      ELSE ReturnError(dynAgent, "failed to record planning")
    /\ AgentFrame

\* execution phase: ExecuteBatch fails
AgentExecutionFails ==
    /\ dynAgent.pc = "executing"
    /\ \E ok \in BOOLEAN :
          dynAgent' = ReturnError(recordError(dynAgent, "execution", ok),
                                  "execution failed")
    /\ AgentFrame

\* execution phase: ExecuteBatch returns nil
AgentExecutionSucceeds ==
    /\ dynAgent.pc = "executing"
    /\ dynAgent' = [dynAgent EXCEPT !.pc = "results"]
    /\ AgentFrame

\* ProcessResults fails
AgentResultsFail ==
    /\ dynAgent.pc = "results"
    /\ dynAgent' = ReturnError(dynAgent, "result processing failed")
    /\ AgentFrame

\* ProcessResults succeeds: the completion is recorded (the result of Record is
\* ignored), a.state = AgentStateCompleted, return result, nil
AgentCompletes ==
    /\ dynAgent.pc = "results"
    /\ \E ok \in BOOLEAN :
          dynAgent' = [dynAgent EXCEPT !.pc = "returned",
                                       !.returned = "result",
                                       !.state = AgentStateCompleted,
                                       !.records = Record(@, "completed", ok)]
    /\ AgentFrame

AgentNext ==
    \/ ProcessMessage
    \/ AgentRecordStart
    \/ AgentDirectResponse
    \/ AgentPlanFails
    \/ AgentPlanSucceeds
    \/ AgentExecutionFails
    \/ AgentExecutionSucceeds
    \/ AgentResultsFail
    \/ AgentCompletes

SpecAgent == AgentInit /\ [][AgentNext]_vars

\* DynAgent.GetState
GetState == dynAgent.state

\* ------------------------------------------------------------------------
\* C30
\* ------------------------------------------------------------------------
\* C30: after ProcessMessage returns, the agent's state is completed when it
\* returned a result and error when it returned an error; GetState never remains
\* at planning or executing once no request is in progress.
C30_StateAfterReturn ==
    /\ dynAgent.pc = "returned" =>
           /\ dynAgent.returned = "result" => GetState = AgentStateCompleted
           /\ dynAgent.returned = "error" => GetState = AgentStateError
    /\ dynAgent.pc \in {"idle", "returned"} =>
           GetState \notin {AgentStatePlanning, AgentStateExecuting}

====
